---- MODULE Spec2Model ----
(***************************************************************************)
(* Model of the per-guild playback queue subsystem of the music bot:       *)
(* TrackInfo, AdvancedQueue and QueueManager of src/utils/advanced_queue.py*)
(*                                                                         *)
(* Objects are modelled with identity: the manager's registry maps a guild *)
(* id to an instance id, and `heap` maps an instance id to the fields of   *)
(* that AdvancedQueue.  A TrackInfo carries the identity `id` it got when   *)
(* it was constructed.  Python's 0-based indexes (negative ones included)  *)
(* are kept in the operations' arguments and translated by PyIndex.        *)
(*                                                                         *)
(* The periodic-save task is modelled by the await it is suspended in, and *)
(* the statistics table of src/database/models.py by the sequence of the   *)
(* rows inserted into it.                                                  *)
(***************************************************************************)
EXTENDS Integers, Sequences, FiniteSets, TLC

VARIABLES
    queues,     \* QueueManager.queues: guild id -> instance id (NoQueue: no key)
    heap,       \* instance id -> the fields of that AdvancedQueue object
    nextInst,   \* the identity the next constructed AdvancedQueue gets
    nextId,     \* the identity the next constructed TrackInfo gets
    op,         \* the last call made: [name, g]
    ret,        \* what that call returned
    addCap,     \* how many TrackInfo objects a run may construct (set at a start)
    statistics, \* the rows of the statistics table with stat_type 'queue_state', by rowid
    today,      \* the current date, as a day number
    save_task,  \* QueueManager._save_task: NoTask or the identity of a task
    tasks,      \* task identity -> the state of that asyncio task
    nextTask    \* the identity the next created task gets

\* the external store and the periodic-save task
persistence == <<statistics, today, save_task, tasks, nextTask>>

vars == <<queues, heap, nextInst, nextId, op, ret, addCap, statistics, today, save_task,
          tasks, nextTask>>

-----------------------------------------------------------------------------
(* Bounds of the model and constants of the program *)

\* config.MAX_QUEUE_SIZE as configured for the runs (MAX_QUEUE_SIZE in the environment)
MAX_QUEUE_SIZE == 2
\* deque(maxlen=100)
HistoryMaxLen == 100
\* _was_recently_played(uri, recent_count=3)
RecentCount == 3
\* to_dict keeps list(self._history)[-20:]
SavedHistoryLen == 20
\* add_next's priority
PlayNextPriority == 999

\* TrackInfo objects constructed in a run of the single-queue specifications
MaxAdds == 3
\* TrackInfo objects constructed in a run of the manager specification
MgrMaxAdds == 2
\* AdvancedQueue objects constructed in a run of the manager specification
MaxInst == 2
\* TrackInfo objects constructed in a run of the history specification (> HistoryMaxLen)
HistoryRunAdds == 102
\* per-instance capacity of the queue of the priority and shuffle specifications
WideMaxSize == 4
\* TrackInfo objects constructed in a run of the shuffle specification
ShuffleRunAdds == 5
\* TrackInfo objects constructed in a run of the reordering specification
ReorderRunAdds == 4
\* TrackInfo objects constructed in a run of the autoplay specification
AutoplayRunAdds == 3
\* TrackInfo objects constructed in a run of the capacity specification
CapacityRunAdds == 3
\* TrackInfo objects added in a run of the round-trip specification
RoundTripAdds == 3
\* TrackInfo objects constructed in a run of the priority specification
PriorityRunAdds == 5
\* TrackInfo objects constructed in a run of the index specification
IndexRunAdds == 3
\* TrackInfo objects constructed in a run of the statistics specification
StatsRunAdds == 4
\* rows the statistics table takes; a write to a full table fails
MaxRows == 3
\* asyncio tasks created in a run
MaxTasks == 2
\* the last day of a run of the restore specification
MaxDay == 2
\* TrackInfo objects constructed by add() between two starts of the process, in the
\* restore specification
LoadRunAdds == 2

Guilds == {1, 2}
NoQueue == 0
\* self._save_task = None
NoTask == 0
\* Python's None where an object is expected
None == [none |-> TRUE]
\* Python's None where a requester (or its id) is expected; member ids are positive
NoMember == 0

\* wavelink.Playable values, identified by their uri
Uris == {"a", "b", "c", "d"}
\* track.author; "" for a track without one (the code tests `track.author` for truth)
TrackAuthor ==
    [u \in Uris |-> IF u \in {"a", "b"} THEN "Queen" ELSE IF u = "c" THEN "ABBA" ELSE ""]
\* track.length, in milliseconds
TrackLength == [u \in Uris |-> IF u = "a" THEN 3 ELSE IF u = "b" THEN 4 ELSE 2]
\* Python's None where an artist name is expected; no author has this name
NoArtist == "None"
Lower == [a \in {"Queen", "ABBA"} |-> IF a = "Queen" THEN "queen" ELSE "abba"]
\* current_track=None of generate_autoplay_suggestions
NoTrack == "None"
\* what the Spotify integration does in one call of generate_autoplay_suggestions:
\* is_available() false; get_recommendations returns nothing; it returns tracks; it raises
ServiceOutcomes == {"unavailable", "nothing", "recommends", "raises"}
\* the tracks convert_spotify_tracks_to_wavelink returns when Spotify recommends
Recommended == <<"d">>
\* discord.Member ids of requesters (NoMember: no requester given)
Members == {7}
\* the guilds bot.get_guild() finds when the queues are loaded
BotGuilds == {1}
\* a dict key after json.dumps / json.loads: the member id as a string
JsonKey == [m \in Members |-> "7"]

-----------------------------------------------------------------------------
(* Python list semantics *)

Max(a, b) == IF a >= b THEN a ELSE b
Min(a, b) == IF a <= b THEN a ELSE b

\* list.pop(i) / list[i]: valid for -len <= i < len; the 1-based position, or 0 for IndexError
PyIndex(s, i) ==
    IF i >= 0 /\ i < Len(s) THEN i + 1
    ELSE IF i < 0 /\ i >= -Len(s) THEN Len(s) + i + 1
    ELSE 0

RemoveAt(s, k) == SubSeq(s, 1, k - 1) \o SubSeq(s, k + 1, Len(s))

InsertAt(s, k, x) == SubSeq(s, 1, k - 1) \o <<x>> \o SubSeq(s, k, Len(s))

\* list.insert(i, x): never raises, the index is clamped into 0..len
PyInsert(s, i, x) ==
    LET j == IF i < 0 THEN Max(0, Len(s) + i) ELSE Min(i, Len(s))
    IN InsertAt(s, j + 1, x)

\* list(seq)[-n:] for n > 0
LastN(s, n) == SubSeq(s, Max(1, Len(s) - n + 1), Len(s))

Range(s) == {s[i] : i \in 1..Len(s)}

\* an empty dict
EmptyDict == [x \in {} |-> 0]

\* the orders random.shuffle may leave a list in
ShuffleOrders(s) ==
    {p \in [1..Len(s) -> Range(s)] :
        \A e \in Range(s) :
            Cardinality({i \in 1..Len(s) : p[i] = e}) =
            Cardinality({i \in 1..Len(s) : s[i] = e})}

\* list(a_set): the elements in some order
RECURSIVE ListOf(_)
ListOf(S) ==
    IF S = {} THEN <<>>
    ELSE LET x == CHOOSE y \in S : TRUE IN <<x>> \o ListOf(S \ {x})

-----------------------------------------------------------------------------
(* TrackInfo *)

TrackInfo(id, uri, requester, priority) ==
    [id |-> id, uri |-> uri, requester |-> requester, priority |-> priority,
     play_count |-> 0]

-----------------------------------------------------------------------------
(* AdvancedQueue *)

\* AdvancedQueue.__init__; `played` is the log of what get() returned (not a field
\* of the program: the claims about play order are stated against it)
AdvancedQueue(guild_id, max_size) ==
    [guild_id |-> guild_id,
     max_size |-> IF max_size = 0 THEN MAX_QUEUE_SIZE ELSE max_size,
     queue |-> <<>>,
     history |-> <<>>,
     favorites |-> {},
     shuffle_enabled |-> FALSE,
     repeat_mode |-> "off",
     autoplay_enabled |-> FALSE,
     user_preferences |-> EmptyDict,
     total_tracks_added |-> 0,
     total_tracks_played |-> 0,
     played |-> <<>>]

is_empty(q) == Len(q.queue) = 0

\* is_full with a fault: > for >=
is_full_strict(q) == Len(q.queue) > q.max_size

is_full(q) == Len(q.queue) >= q.max_size

\* _update_user_preferences: user_preferences is a dict keyed by the member's id
update_user_preferences(prefs, user, uri) ==
    IF user = NoMember THEN prefs
    ELSE
        LET old == IF user \in DOMAIN prefs THEN prefs[user]
                   ELSE [artists |-> EmptyDict, track_count |-> 0]
            new == IF TrackAuthor[uri] = ""
                   THEN [old EXCEPT !.track_count = @ + 1]
                   ELSE LET artist == Lower[TrackAuthor[uri]]
                            n == IF artist \in DOMAIN old.artists
                                 THEN old.artists[artist] ELSE 0
                        IN [artists |-> [a \in DOMAIN old.artists \cup {artist} |->
                                            IF a = artist THEN n + 1 ELSE old.artists[a]],
                            track_count |-> old.track_count + 1]
        IN [u \in DOMAIN prefs \cup {user} |-> IF u = user THEN new ELSE prefs[u]]

\* InsertPosition with a fault: <= for <, a new entry overtakes its equals
InsertPositionNotStable(s, priority) ==
    IF \E i \in 1..Len(s) : s[i].priority <= priority
    THEN CHOOSE i \in 1..Len(s) :
            /\ s[i].priority <= priority
            /\ \A j \in 1..(i - 1) : ~(s[j].priority <= priority)
    ELSE Len(s) + 1

\* the 1-based position add() inserts a priority > 0 entry at: before the first entry
\* of strictly lower priority, else at the end
InsertPosition(s, priority) ==
    IF \E i \in 1..Len(s) : s[i].priority < priority
    THEN CHOOSE i \in 1..Len(s) :
            /\ s[i].priority < priority
            /\ \A j \in 1..(i - 1) : ~(s[j].priority < priority)
    ELSE Len(s) + 1

\* add with a fault: the statistics are updated before the capacity check
add_counts_before_check(q, id, uri, requester, priority) ==
    LET counted == [q EXCEPT !.total_tracks_added = @ + 1,
                             !.user_preferences =
                                 update_user_preferences(@, requester, uri)]
        track_info == TrackInfo(id, uri, requester, priority)
    IN IF is_full(q) THEN [q |-> counted, ret |-> FALSE]
       ELSE [q |-> [counted EXCEPT !.queue =
                        IF priority > 0
                        THEN InsertAt(q.queue, InsertPosition(q.queue, priority),
                                      track_info)
                        ELSE Append(q.queue, track_info)],
             ret |-> TRUE]

\* add(track, requester, priority): [q |-> the queue afterwards, ret |-> the result]
add(q, id, uri, requester, priority) ==
    IF is_full(q) THEN [q |-> q, ret |-> FALSE]
    ELSE
        LET track_info == TrackInfo(id, uri, requester, priority)
            newq == IF priority > 0
                    THEN InsertAt(q.queue, InsertPosition(q.queue, priority), track_info)
                    ELSE Append(q.queue, track_info)
        IN [q |-> [q EXCEPT !.queue = newq,
                            !.total_tracks_added = @ + 1,
                            !.user_preferences =
                                update_user_preferences(@, requester, uri)],
            ret |-> TRUE]

\* add_next with a fault: the priority is not passed on
add_next_as_normal(q, id, uri, requester) == add(q, id, uri, requester, 0)

\* add_next(track, requester)
add_next(q, id, uri, requester) == add(q, id, uri, requester, PlayNextPriority)

\* _was_recently_played(uri, recent_count=3)
was_recently_played(q, uri) ==
    uri \in {e.uri : e \in Range(LastN(q.history, RecentCount))}

\* HistoryAppend with a fault: a deque without maxlen
HistoryAppendUnbounded(h, e) == Append(h, e)

\* deque(maxlen=100).append
HistoryAppend(h, e) ==
    IF Len(h) >= HistoryMaxLen THEN Append(Tail(h), e) ELSE Append(h, e)

\* queue._history.append(x) for each x of s
RECURSIVE AppendAll(_, _)
AppendAll(h, s) ==
    IF s = <<>> THEN h ELSE AppendAll(HistoryAppend(h, Head(s)), Tail(s))

\* GetChoices with a fault: pop() for pop(0)
GetChoicesLast(q) == {Max(1, Len(q.queue))}

\* GetChoices with a fault: the recently played entries are not filtered out
GetChoicesAny(q) ==
    IF q.shuffle_enabled /\ Len(q.queue) > 1 THEN 1..Len(q.queue) ELSE {1}

\* the 1-based positions get() may pop: random.choice / random.randint under shuffle
GetChoices(q) ==
    IF q.shuffle_enabled /\ Len(q.queue) > 1
    THEN LET available == {i \in 1..Len(q.queue) :
                              ~was_recently_played(q, q.queue[i].uri)}
         IN IF available # {} THEN available ELSE 1..Len(q.queue)
    ELSE {1}

\* get with a fault: play_count is not incremented
get_no_play_count(q, k) ==
    IF is_empty(q) THEN [q |-> q, ret |-> None]
    ELSE
        LET track_info == q.queue[k]
        IN [q |-> [q EXCEPT !.queue = RemoveAt(q.queue, k),
                            !.total_tracks_played = @ + 1,
                            !.history = HistoryAppend(@, track_info),
                            !.played = Append(@, track_info)],
            ret |-> track_info]

\* get(), popping position k (one of GetChoices(q))
get(q, k) ==
    IF is_empty(q) THEN [q |-> q, ret |-> None]
    ELSE
        LET track_info == [q.queue[k] EXCEPT !.play_count = @ + 1]
        IN [q |-> [q EXCEPT !.queue = RemoveAt(q.queue, k),
                            !.total_tracks_played = @ + 1,
                            !.history = HistoryAppend(@, track_info),
                            !.played = Append(@, track_info)],
            ret |-> track_info]

\* peek(index): never mutates
peek(q, index) ==
    LET k == PyIndex(q.queue, index)
    IN IF k = 0 THEN None ELSE q.queue[k]

\* remove with a fault: the entry taken out is recorded as played
remove_to_history(q, index) ==
    LET k == PyIndex(q.queue, index)
    IN IF k = 0 THEN [q |-> q, ret |-> None]
       ELSE [q |-> [q EXCEPT !.queue = RemoveAt(q.queue, k),
                             !.history = HistoryAppend(@, q.queue[k])],
             ret |-> q.queue[k]]

\* remove(index)
remove(q, index) ==
    LET k == PyIndex(q.queue, index)
    IN IF k = 0 THEN [q |-> q, ret |-> None]
       ELSE [q |-> [q EXCEPT !.queue = RemoveAt(q.queue, k)], ret |-> q.queue[k]]

\* remove_by_uri(uri): the first occurrence
remove_by_uri(q, uri) ==
    IF \E i \in 1..Len(q.queue) : q.queue[i].uri = uri
    THEN LET k == CHOOSE i \in 1..Len(q.queue) :
                     /\ q.queue[i].uri = uri
                     /\ \A j \in 1..(i - 1) : q.queue[j].uri # uri
         IN [q |-> [q EXCEPT !.queue = RemoveAt(q.queue, k)], ret |-> TRUE]
    ELSE [q |-> q, ret |-> FALSE]

\* clear()
clear(q) == [q |-> [q EXCEPT !.queue = <<>>], ret |-> None]

\* move(from_index, to_index): pop raises IndexError, insert never does
move(q, from_index, to_index) ==
    LET k == PyIndex(q.queue, from_index)
    IN IF k = 0 THEN [q |-> q, ret |-> FALSE]
       ELSE [q |-> [q EXCEPT !.queue =
                        PyInsert(RemoveAt(q.queue, k), to_index, q.queue[k])],
             ret |-> TRUE]

IsHighPriority(e) == e.priority > 0

IsNormal(e) == e.priority <= 0

high_priority(q) == SelectSeq(q.queue, IsHighPriority)

normal_tracks(q) == SelectSeq(q.queue, IsNormal)

\* shuffle with a fault: every entry is permuted, whatever its priority
shuffle_all(q, shuffled) ==
    IF Len(q.queue) > 1
    THEN [q EXCEPT !.queue = shuffled \o high_priority(q), !.shuffle_enabled = TRUE]
    ELSE q

\* shuffle with a fault: the mode flag is not set
shuffle_no_flag(q, shuffled) ==
    IF Len(q.queue) > 1
    THEN [q EXCEPT !.queue = high_priority(q) \o shuffled]
    ELSE q

\* shuffle(), random.shuffle leaving normal_tracks in the order `shuffled`
shuffle(q, shuffled) ==
    IF Len(q.queue) > 1
    THEN [q EXCEPT !.queue = high_priority(q) \o shuffled, !.shuffle_enabled = TRUE]
    ELSE q

\* toggle_shuffle()
toggle_shuffle(q, shuffled) ==
    LET flipped == [q EXCEPT !.shuffle_enabled = ~@]
        after == IF flipped.shuffle_enabled THEN shuffle(flipped, shuffled) ELSE flipped
    IN [q |-> after, ret |-> after.shuffle_enabled]

RepeatModes == <<"off", "track", "queue">>

\* set_repeat_mode(mode)
set_repeat_mode(q, mode) ==
    LET after == IF mode \in Range(RepeatModes) THEN [q EXCEPT !.repeat_mode = mode] ELSE q
    IN [q |-> after, ret |-> after.repeat_mode]

\* toggle_repeat()
toggle_repeat(q) ==
    LET current_index == CHOOSE i \in 1..3 : RepeatModes[i] = q.repeat_mode
        next == RepeatModes[(current_index % 3) + 1]
    IN [q |-> [q EXCEPT !.repeat_mode = next], ret |-> next]

\* the tracks (by uri) of history entries, a track being equal to another when it has
\* the same uri
TracksOf(s) == [i \in 1..Len(s) |-> s[i].uri]

\* the first loop of _get_similar_tracks_from_history: the tracks of the history
\* entries by the current track's artist, the current track excepted, while fewer
\* than limit are collected
same_artist_tracks(history, current_track, limit) ==
    IF TrackAuthor[current_track] = "" THEN <<>>
    ELSE LET SameArtist(e) ==
                 /\ TrackAuthor[e.uri] # ""
                 /\ Lower[TrackAuthor[e.uri]] = Lower[TrackAuthor[current_track]]
                 /\ e.uri # current_track
             found == TracksOf(SelectSeq(history, SameArtist))
         IN SubSeq(found, 1, Min(Len(found), Max(limit, 0)))

\* sorted(self._history, key=lambda x: x.play_count, reverse=True): a stable sort, the
\* entries of play_count k and below in the order of the history
RECURSIVE popular_tracks(_, _)
popular_tracks(history, k) ==
    IF k < 0 THEN <<>>
    ELSE LET Played_k(e) == e.play_count = k
         IN SelectSeq(history, Played_k) \o popular_tracks(history, k - 1)

\* the second loop of _get_similar_tracks_from_history over the entries `popular`
RECURSIVE fill_popular(_, _, _, _)
fill_popular(popular, suggestions, current_track, limit) ==
    IF popular = <<>> THEN suggestions
    ELSE LET track == Head(popular).uri
         IN fill_popular(Tail(popular),
                         IF /\ Len(suggestions) < limit
                            /\ track \notin Range(suggestions)
                            /\ track # current_track
                         THEN Append(suggestions, track)
                         ELSE suggestions,
                         current_track, limit)

\* _get_similar_tracks_from_history(current_track, limit), current_track not None
get_similar_tracks_from_history(q, current_track, limit) ==
    IF q.history = <<>> THEN <<>>
    ELSE LET top == Max(0, CHOOSE k \in {e.play_count : e \in Range(q.history)} :
                               \A e \in Range(q.history) : e.play_count <= k)
         IN fill_popular(popular_tracks(q.history, top),
                         same_artist_tracks(q.history, current_track, limit),
                         current_track, limit)

\* generate_autoplay_suggestions(current_track, limit), the Spotify integration doing
\* `service`. With current_track=None and a history the fallback raises
\* AttributeError at current_track.uri unless limit <= 0 keeps it from being
\* evaluated; `except Exception` turns that, and a raising service, into [].
generate_autoplay_suggestions(q, current_track, limit, service) ==
    IF ~q.autoplay_enabled THEN <<>>
    ELSE IF service = "raises" THEN <<>>
    ELSE IF service = "recommends" /\ current_track # NoTrack THEN Recommended
    ELSE IF current_track = NoTrack THEN <<>>
    ELSE get_similar_tracks_from_history(q, current_track, limit)

\* get_history(limit): list(self._history)[-limit:]
get_history(q, limit) ==
    LET n == Len(q.history)
        start == IF limit = 0 THEN 0
                 ELSE IF limit > 0 THEN Max(0, n - limit)
                 ELSE Min(n, -limit)
    IN SubSeq(q.history, start + 1, n)

add_to_favorites(q, uri) == [q |-> [q EXCEPT !.favorites = @ \cup {uri}], ret |-> None]

remove_from_favorites(q, uri) == [q |-> [q EXCEPT !.favorites = @ \ {uri}], ret |-> None]

\* sum(getattr(track_info.track, 'length', 0) for track_info in s)
RECURSIVE SumLengths(_)
SumLengths(s) == IF s = <<>> THEN 0 ELSE TrackLength[Head(s).uri] + SumLengths(Tail(s))

\* requesters[name]: the entries of s requested by member m
RequestedBy(s, m) == Cardinality({i \in 1..Len(s) : s[i].requester = m})

\* artists[a]: the entries of s whose track has author a
ByArtist(s, a) == Cardinality({i \in 1..Len(s) : TrackAuthor[s[i].uri] = a})

\* max(artists.items(), key=lambda x: x[1])[0]: the first key, in the order the keys
\* entered the dict (first occurrence in s), among those with the highest count
MostRequested(s, artists) ==
    LET top == {a \in DOMAIN artists : \A b \in DOMAIN artists : artists[a] >= artists[b]}
        first == CHOOSE i \in 1..Len(s) :
                    /\ TrackAuthor[s[i].uri] \in top
                    /\ \A j \in 1..(i - 1) : TrackAuthor[s[j].uri] \notin top
    IN TrackAuthor[s[first].uri]

\* get_queue_stats with a fault: the counts still include the entries already played
get_queue_stats_stale(q) ==
    LET s == q.history \o q.queue
        artists == [a \in {TrackAuthor[e.uri] : e \in Range(s)} \ {""} |-> ByArtist(s, a)]
    IN IF Len(s) = 0
       THEN [total_tracks |-> 0, total_duration |-> 0, average_duration |-> 0,
             requesters |-> EmptyDict, genres |-> EmptyDict,
             most_requested_artist |-> NoArtist]
       ELSE [total_tracks |-> Len(s),
             total_duration |-> SumLengths(s),
             average_duration |-> SumLengths(s) \div Len(s),
             requesters |-> [m \in {e.requester : e \in Range(s)} \ {NoMember} |->
                               RequestedBy(s, m)],
             artists |-> artists,
             most_requested_artist |->
                 IF DOMAIN artists # {} THEN MostRequested(s, artists) ELSE NoArtist]

\* get_queue_stats(): computed from pending on every call; requesters are keyed by the
\* member (its display_name in the code)
get_queue_stats(q) ==
    LET s == q.queue
        artists == [a \in {TrackAuthor[e.uri] : e \in Range(s)} \ {""} |-> ByArtist(s, a)]
    IN IF Len(s) = 0
       THEN [total_tracks |-> 0, total_duration |-> 0, average_duration |-> 0,
             requesters |-> EmptyDict, genres |-> EmptyDict,
             most_requested_artist |-> NoArtist]
       ELSE [total_tracks |-> Len(s),
             total_duration |-> SumLengths(s),
             average_duration |-> SumLengths(s) \div Len(s),
             requesters |-> [m \in {e.requester : e \in Range(s)} \ {NoMember} |->
                               RequestedBy(s, m)],
             artists |-> artists,
             most_requested_artist |->
                 IF DOMAIN artists # {} THEN MostRequested(s, artists) ELSE NoArtist]

-----------------------------------------------------------------------------
(* Serialization *)

\* TrackInfo.to_dict
TrackInfo_to_dict(e) ==
    [uri |-> e.uri, author |-> TrackAuthor[e.uri], requester_id |-> e.requester,
     priority |-> e.priority, play_count |-> e.play_count]

\* TrackInfo.from_dict with a fault: the saved priority is not read back
TrackInfo_from_dict_no_priority(data, id, resolvable, guild_members) ==
    IF data.uri \notin resolvable THEN None
    ELSE [TrackInfo(id, data.uri,
                    IF data.requester_id # NoMember /\ data.requester_id \in guild_members
                    THEN data.requester_id ELSE NoMember,
                    0)
          EXCEPT !.play_count = data.play_count]

\* TrackInfo.from_dict: None when the search finds nothing; `resolvable` are the uris
\* wavelink.Playable.search resolves, `guild_members` what guild.get_member knows
TrackInfo_from_dict(data, id, resolvable, guild_members) ==
    IF data.uri \notin resolvable THEN None
    ELSE [TrackInfo(id, data.uri,
                    IF data.requester_id # NoMember /\ data.requester_id \in guild_members
                    THEN data.requester_id ELSE NoMember,
                    data.priority)
          EXCEPT !.play_count = data.play_count]

\* AdvancedQueue.to_dict
to_dict(q) ==
    [guild_id |-> q.guild_id,
     queue |-> [i \in 1..Len(q.queue) |-> TrackInfo_to_dict(q.queue[i])],
     history |-> LET last == LastN(q.history, SavedHistoryLen)
                 IN [i \in 1..Len(last) |-> TrackInfo_to_dict(last[i])],
     favorites |-> ListOf(q.favorites),
     shuffle_enabled |-> q.shuffle_enabled,
     repeat_mode |-> q.repeat_mode,
     autoplay_enabled |-> q.autoplay_enabled,
     user_preferences |-> q.user_preferences,
     total_tracks_added |-> q.total_tracks_added,
     total_tracks_played |-> q.total_tracks_played]

\* RestoreTracks with a fault: the first track that does not resolve ends the loop
RestoreTracksUntilMiss(saved, first_id, resolvable, guild_members) ==
    LET built == [i \in 1..Len(saved) |->
                    TrackInfo_from_dict(saved[i], first_id + i - 1, resolvable,
                                        guild_members)]
        misses == {i \in 1..Len(saved) : built[i] = None}
        last == IF misses = {} THEN Len(saved)
                ELSE (CHOOSE i \in misses : \A j \in misses : i <= j) - 1
    IN SubSeq(built, 1, last)

\* the TrackInfo objects from_dict builds from a list of saved tracks; the i-th saved
\* track gets identity first_id + i - 1 when it resolves, unresolved ones are skipped
RestoreTracks(saved, first_id, resolvable, guild_members) ==
    LET built == [i \in 1..Len(saved) |->
                    TrackInfo_from_dict(saved[i], first_id + i - 1, resolvable,
                                        guild_members)]
        Resolved(x) == x # None
    IN SelectSeq(built, Resolved)

\* AdvancedQueue.from_dict
from_dict(data, first_id, resolvable, guild_members) ==
    LET fresh == AdvancedQueue(data.guild_id, MAX_QUEUE_SIZE)
        restored_history ==
            RestoreTracks(data.history, first_id + Len(data.queue), resolvable,
                          guild_members)
    IN [fresh EXCEPT
            !.shuffle_enabled = data.shuffle_enabled,
            !.repeat_mode = data.repeat_mode,
            !.autoplay_enabled = data.autoplay_enabled,
            !.total_tracks_added = data.total_tracks_added,
            !.total_tracks_played = data.total_tracks_played,
            !.favorites = Range(data.favorites),
            !.user_preferences = data.user_preferences,
            !.queue = RestoreTracks(data.queue, first_id, resolvable, guild_members),
            !.history = AppendAll(fresh.history, restored_history)]

-----------------------------------------------------------------------------
(* QueueManager *)

\* get_queue with a fault: the membership test is missing, a queue is built every time
get_queue_always_new(qs, g, fresh) == [qs |-> [qs EXCEPT ![g] = fresh], ret |-> fresh]

\* get_queue with a fault: an existing queue of any guild is handed out
get_queue_shared(qs, g, fresh) ==
    IF \E h \in DOMAIN qs : qs[h] # NoQueue
    THEN LET i == CHOOSE i \in {qs[h] : h \in DOMAIN qs} : i # NoQueue
         IN [qs |-> [qs EXCEPT ![g] = i], ret |-> i]
    ELSE [qs |-> [qs EXCEPT ![g] = fresh], ret |-> fresh]

\* get_queue(guild_id): `fresh` is the identity a newly constructed queue would get
get_queue(qs, g, fresh) ==
    IF qs[g] = NoQueue
    THEN [qs |-> [qs EXCEPT ![g] = fresh], ret |-> fresh]
    ELSE [qs |-> qs, ret |-> qs[g]]

\* remove_queue(guild_id)
remove_queue(qs, g) ==
    IF qs[g] # NoQueue
    THEN [qs |-> [qs EXCEPT ![g] = NoQueue], ret |-> TRUE]
    ELSE [qs |-> qs, ret |-> FALSE]

\* cleanup_guild_data(guild_id)
cleanup_guild_data(qs, g) ==
    IF qs[g] # NoQueue
    THEN [qs |-> [qs EXCEPT ![g] = NoQueue], ret |-> None]
    ELSE [qs |-> qs, ret |-> None]

\* the objects still referenced from the registry (what is unreferenced is collected)
Live(qs, h) == [i \in {qs[g] : g \in DOMAIN qs} \cap DOMAIN h |-> h[i]]

-----------------------------------------------------------------------------
(* Persistence: save_all_queues and the periodic-save task *)

\* the elements of a set of numbers, smallest first
RECURSIVE Ascending(_)
Ascending(S) ==
    IF S = {} THEN <<>>
    ELSE LET m == CHOOSE x \in S : \A y \in S : x <= y
         IN <<m>> \o Ascending(S \ {m})

\* the entries of the dict self.queues behind the entry of the instance pos, in the
\* order of the dict: a key is inserted when get_queue creates its queue, and the
\* instances are numbered in the order they are created
KeysAfter(qs, pos) ==
    LET insts == Ascending({qs[g] : g \in DOMAIN qs} \ (0..pos))
    IN [k \in 1..Len(insts) |-> CHOOSE g \in DOMAIN qs : qs[g] = insts[k]]

\* self.queues.items(): the registered guilds in the order they were registered
Keys(qs) == KeysAfter(qs, 0)

\* len(self.queues)
Size(qs) == Cardinality({g \in DOMAIN qs : qs[g] # NoQueue})

\* no dict iterator
NoKeys == [g \in Guilds |-> NoQueue]

\* asyncio.create_task(self._periodic_save()): the task waits in asyncio.sleep.
\* pc is where the coroutine is suspended: "sleep" (await asyncio.sleep), "save"
\* (await db.save_daily_statistics inside save_all_queues) or "done"; cancel is a
\* cancellation requested and not yet delivered; todo are the guilds the pass has
\* still to write, the first being written; data is the snapshot of the write in
\* flight.  used, pos and left are the iterator of `for ... in self.queues.items()`:
\* the size of the dict when the loop began, the entry yielded last and the number of
\* entries still expected.  written, failed and stopped_in are a log of the current
\* pass and of where stop_persistence_task found the task, began is the registry as
\* it was when the pass began (not fields of the program).
NewTask ==
    [pc |-> "sleep", cancel |-> FALSE, todo |-> <<>>, data |-> None,
     used |-> 0, pos |-> 0, left |-> 0,
     written |-> {}, failed |-> {}, stopped_in |-> "none", began |-> NoKeys]

\* task.done()
done(task) == task.pc = "done"

\* the tasks still referenced: by the manager, or by the event loop while they run
LiveTasks(st, ts) == [t \in {u \in DOMAIN ts : u = st \/ ~done(ts[u])} |-> ts[t]]

\* start_persistence_task with a fault: a task is created on every call
start_persistence_task_always(st, ts, fresh) ==
    [save_task |-> fresh,
     tasks |-> LiveTasks(fresh, [t \in DOMAIN ts \cup {fresh} |->
                                    IF t = fresh THEN NewTask ELSE ts[t]])]

\* start_persistence_task(): `fresh` is the identity a newly created task would get
start_persistence_task(st, ts, fresh) ==
    IF st = NoTask \/ done(ts[st])
    THEN [save_task |-> fresh,
          tasks |-> LiveTasks(fresh, [t \in DOMAIN ts \cup {fresh} |->
                                         IF t = fresh THEN NewTask ELSE ts[t]])]
    ELSE [save_task |-> st, tasks |-> ts]

\* stop_persistence_task(): task.cancel() only requests the cancellation
stop_persistence_task(st, ts) ==
    IF st # NoTask /\ ~done(ts[st])
    THEN [ts EXCEPT ![st].cancel = TRUE,
                    ![st].stopped_in = IF ts[st].cancel THEN @ ELSE ts[st].pc]
    ELSE ts

\* _periodic_save after asyncio.sleep returned: save_all_queues() runs up to its first
\* await; with no queue registered the pass is over at once
begin_pass(task, qs, h) ==
    LET keys == Keys(qs)
    IN IF keys = <<>>
       THEN [task EXCEPT !.written = {}, !.failed = {}]
       ELSE [task EXCEPT !.pc = "save", !.todo = keys,
                         !.data = to_dict(h[qs[keys[1]]]),
                         !.used = Len(keys), !.pos = qs[keys[1]], !.left = Len(keys) - 1,
                         !.written = {}, !.failed = {}, !.began = qs]

\* save_all_queues after `await db.save_daily_statistics(...)` returned: the loop asks
\* the dict iterator for the next entry.  The iterator raises RuntimeError
\* (`dictionary changed size during iteration`) when len(self.queues) is not what it
\* was when the loop began, ends the loop when no entry is behind the last one, and
\* raises RuntimeError (`dictionary keys changed during iteration`) when there is one
\* but it has yielded as many as the dict had.  The RuntimeError is caught by the one
\* `except Exception` around the loop.  In each of these cases the pass is over and
\* _periodic_save sleeps again; otherwise the loop goes on to the next guild.
write_done(task, qs, h) ==
    LET rest == KeysAfter(qs, task.pos)
        logged == [task EXCEPT !.written = @ \cup {Head(task.todo)}]
    IN IF Size(qs) # task.used \/ rest = <<>> \/ task.left = 0
       THEN [logged EXCEPT !.pc = "sleep", !.todo = <<>>, !.data = None,
                           !.used = 0, !.pos = 0, !.left = 0, !.began = NoKeys]
       ELSE [logged EXCEPT !.todo = rest, !.data = to_dict(h[qs[rest[1]]]),
                           !.pos = qs[rest[1]], !.left = @ - 1]

\* write_failed with a fault: the error ends the task
write_failed_fatal(task) ==
    [task EXCEPT !.pc = "done", !.todo = <<>>, !.data = None,
                 !.failed = {Head(task.todo)}]

\* save_all_queues after `await db.save_daily_statistics(...)` raised an Exception: the
\* one try around the whole loop catches it, logs and returns; _periodic_save sleeps
\* again
write_failed(task) ==
    [task EXCEPT !.pc = "sleep", !.todo = <<>>, !.data = None,
                 !.used = 0, !.pos = 0, !.left = 0, !.began = NoKeys,
                 !.failed = {Head(task.todo)}]

\* CancelledError delivered at the await the task is suspended in.  It is not an
\* Exception, so save_all_queues does not catch it; _periodic_save's
\* `except asyncio.CancelledError: break` ends the task.  `landed`: the write in
\* flight reached the table all the same.
cancelled(task, landed) ==
    [task EXCEPT !.pc = "done", !.cancel = FALSE, !.todo = <<>>, !.data = None,
                 !.used = 0, !.pos = 0, !.left = 0, !.began = NoKeys,
                 !.written = IF landed THEN @ \cup {Head(task.todo)} ELSE @]

\* the row save_daily_statistics inserts: INSERT OR REPLACE into a table whose only
\* key is the autoincremented id adds a row every time
Row(date, guild_id, stat_data) ==
    [date |-> date, guild_id |-> guild_id, stat_data |-> stat_data]

\* json.loads(json.dumps(stat_data)): the int keys of user_preferences come back as
\* strings, everything else as it was
json_round_trip(data) ==
    [data EXCEPT !.user_preferences =
        [k \in {JsonKey[m] : m \in DOMAIN data.user_preferences} |->
            data.user_preferences[CHOOSE m \in DOMAIN data.user_preferences :
                                      JsonKey[m] = k]]]

\* get_statistics('queue_state', days=1): the rows with date >= date('now', '-1 days')
\* ORDER BY date DESC; the order of rows of one date is not specified. The results are
\* given as sequences of row numbers.
StatisticsOrders(rows, now) ==
    LET window == {i \in 1..Len(rows) : rows[i].date >= now - 1}
        n == Cardinality(window)
    IN {p \in [1..n -> window] :
           /\ \A i, j \in 1..n : i # j => p[i] # p[j]
           /\ \A i, j \in 1..n : i < j => rows[p[i]].date >= rows[p[j]].date}

\* a stat_data on which json.loads or AdvancedQueue.from_dict raises
Damaged == [damaged |-> TRUE]

\* LoadLoop with a fault: an error restoring one row ends the loop
RECURSIVE LoadLoopAbortOnError(_, _, _)
LoadLoopAbortOnError(stats, restored, bot_guilds) ==
    IF stats = <<>> THEN restored
    ELSE LET stat == Head(stats)
             g == stat.guild_id
         IN IF g # 0 /\ g \in bot_guilds /\ stat.stat_data = Damaged
            THEN restored
            ELSE LoadLoopAbortOnError(Tail(stats),
                     IF g # 0 /\ g \in bot_guilds
                     THEN [h \in DOMAIN restored \cup {g} |->
                              IF h = g THEN stat.stat_data ELSE restored[h]]
                     ELSE restored,
                     bot_guilds)

\* the loop of load_all_queues over the rows stats, bot.get_guild finding the guilds
\* bot_guilds: self.queues[guild_id] is assigned for every row whose guild the bot
\* finds and whose restore does not raise, so the last such row of a guild stays; a
\* row whose restore raises is logged and the loop goes on.
\* `restored` maps a guild to the stat_data its queue was last built from.
RECURSIVE LoadLoop(_, _, _)
LoadLoop(stats, restored, bot_guilds) ==
    IF stats = <<>> THEN restored
    ELSE LET stat == Head(stats)
             g == stat.guild_id
         IN LoadLoop(Tail(stats),
                     IF g # 0 /\ g \in bot_guilds /\ stat.stat_data # Damaged
                     THEN [h \in DOMAIN restored \cup {g} |->
                              IF h = g THEN stat.stat_data ELSE restored[h]]
                     ELSE restored,
                     bot_guilds)

\* the TrackInfo objects from_dict builds for the first n guilds of gs
RECURSIVE TracksBefore(_, _, _)
TracksBefore(gs, restored, n) ==
    IF n = 0 THEN 0
    ELSE TracksBefore(gs, restored, n - 1)
            + Len(restored[gs[n]].queue) + Len(restored[gs[n]].history)

\* load_all_queues(bot) given the rows get_statistics returned and the guilds
\* bot.get_guild finds: the registry and the
\* objects afterwards. The queues that stay registered get the identities
\* first_inst.. and their tracks the identities first_id..; the search resolves
\* every uri.
load_all_queues(qs, h, stats, bot_guilds, first_inst, first_id) ==
    LET restored == LoadLoop(stats, EmptyDict, bot_guilds)
        gs == Ascending(DOMAIN restored)
        Pos(g) == CHOOSE i \in 1..Len(gs) : gs[i] = g
        new == [i \in {first_inst + k - 1 : k \in 1..Len(gs)} |->
                   from_dict(json_round_trip(restored[gs[i - first_inst + 1]]),
                             first_id + TracksBefore(gs, restored, i - first_inst),
                             Uris, Members)]
        qs2 == [g \in DOMAIN qs |->
                   IF g \in DOMAIN restored THEN first_inst + Pos(g) - 1 ELSE qs[g]]
    IN [qs |-> qs2,
        heap |-> Live(qs2, [i \in DOMAIN h \cup DOMAIN new |->
                               IF i \in DOMAIN new THEN new[i] ELSE h[i]]),
        nextInst |-> first_inst + Len(gs),
        nextId |-> first_id + TracksBefore(gs, restored, Len(gs))]

-----------------------------------------------------------------------------
(* The calls, as actions.  Each records itself in `op` and its result in `ret`. *)

QueueOf(g) == heap[queues[g]]

Registered(g) == queues[g] # NoQueue

\* a method of the queue of guild g returned r = [q, ret]
Returned(name, g, r) ==
    /\ heap' = [heap EXCEPT ![queues[g]] = r.q]
    /\ ret' = r.ret
    /\ op' = [name |-> name, g |-> g]
    /\ UNCHANGED <<queues, nextInst, addCap>>
    /\ UNCHANGED persistence

Add(g, uri, requester, priority) ==
    /\ Registered(g)
    /\ nextId <= addCap \/ is_full(QueueOf(g))
    /\ LET r == add(QueueOf(g), nextId, uri, requester, priority)
       IN /\ Returned("add", g, r)
          /\ nextId' = IF r.ret THEN nextId + 1 ELSE nextId

AddNext(g, uri, requester) ==
    /\ Registered(g)
    /\ nextId <= addCap \/ is_full(QueueOf(g))
    /\ LET r == add_next(QueueOf(g), nextId, uri, requester)
       IN /\ Returned("add_next", g, r)
          /\ nextId' = IF r.ret THEN nextId + 1 ELSE nextId

Get(g) ==
    /\ Registered(g)
    /\ \E k \in GetChoices(QueueOf(g)) : Returned("get", g, get(QueueOf(g), k))
    /\ UNCHANGED nextId

Peek(g, index) ==
    /\ Registered(g)
    /\ Returned("peek", g, [q |-> QueueOf(g), ret |-> peek(QueueOf(g), index)])
    /\ UNCHANGED nextId

Remove(g, index) ==
    /\ Registered(g)
    /\ Returned("remove", g, remove(QueueOf(g), index))
    /\ UNCHANGED nextId

RemoveByUri(g, uri) ==
    /\ Registered(g)
    /\ Returned("remove_by_uri", g, remove_by_uri(QueueOf(g), uri))
    /\ UNCHANGED nextId

Clear(g) ==
    /\ Registered(g)
    /\ Returned("clear", g, clear(QueueOf(g)))
    /\ UNCHANGED nextId

Move(g, from_index, to_index) ==
    /\ Registered(g)
    /\ Returned("move", g, move(QueueOf(g), from_index, to_index))
    /\ UNCHANGED nextId

Shuffle(g) ==
    /\ Registered(g)
    /\ \E shuffled \in ShuffleOrders(normal_tracks(QueueOf(g))) :
          Returned("shuffle", g, [q |-> shuffle(QueueOf(g), shuffled), ret |-> None])
    /\ UNCHANGED nextId

ToggleShuffle(g) ==
    /\ Registered(g)
    /\ \E shuffled \in ShuffleOrders(normal_tracks(QueueOf(g))) :
          Returned("toggle_shuffle", g, toggle_shuffle(QueueOf(g), shuffled))
    /\ UNCHANGED nextId

SetRepeatMode(g, mode) ==
    /\ Registered(g)
    /\ Returned("set_repeat_mode", g, set_repeat_mode(QueueOf(g), mode))
    /\ UNCHANGED nextId

ToggleRepeat(g) ==
    /\ Registered(g)
    /\ Returned("toggle_repeat", g, toggle_repeat(QueueOf(g)))
    /\ UNCHANGED nextId

\* the callers' queue.autoplay_enabled = not queue.autoplay_enabled
ToggleAutoplay(g) ==
    /\ Registered(g)
    /\ Returned("toggle_autoplay", g,
                [q |-> [QueueOf(g) EXCEPT !.autoplay_enabled = ~@], ret |-> None])
    /\ UNCHANGED nextId

AddToFavorites(g, uri) ==
    /\ Registered(g)
    /\ Returned("add_to_favorites", g, add_to_favorites(QueueOf(g), uri))
    /\ UNCHANGED nextId

RemoveFromFavorites(g, uri) ==
    /\ Registered(g)
    /\ Returned("remove_from_favorites", g, remove_from_favorites(QueueOf(g), uri))
    /\ UNCHANGED nextId

GetHistory(g, limit) ==
    /\ Registered(g)
    /\ Returned("get_history", g, [q |-> QueueOf(g), ret |-> get_history(QueueOf(g), limit)])
    /\ UNCHANGED nextId

GetQueueStats(g) ==
    /\ Registered(g)
    /\ Returned("get_queue_stats", g,
                [q |-> QueueOf(g), ret |-> get_queue_stats(QueueOf(g))])
    /\ UNCHANGED nextId

\* from_dict(to_dict(queue)) with a search that resolves every uri. The queue built
\* is the call's result; it and its new TrackInfo objects are referenced from nowhere
\* else, so their identities are free again once the next call overwrites `ret`.
RoundTrip(g) ==
    /\ Registered(g)
    /\ LET data == to_dict(QueueOf(g))
       IN ret' = from_dict(data, nextId, Uris, Members)
    /\ op' = [name |-> "round_trip", g |-> g]
    /\ UNCHANGED <<queues, heap, nextInst, nextId, addCap>>
    /\ UNCHANGED persistence

GenerateAutoplaySuggestions(g, current_track, limit, service) ==
    /\ Registered(g)
    /\ ret' = generate_autoplay_suggestions(QueueOf(g), current_track, limit, service)
    /\ op' = [name |-> "generate_autoplay_suggestions", g |-> g,
              current_track |-> current_track, limit |-> limit, service |-> service]
    /\ UNCHANGED <<queues, heap, nextInst, nextId, addCap>>
    /\ UNCHANGED persistence

\* from_dict(to_dict(queue)) with a search that finds a match only for the uris of
\* `resolvable`; for the others it returns nothing or raises, which TrackInfo.from_dict
\* turns into None alike
FromDict(g, resolvable) ==
    /\ Registered(g)
    /\ LET data == to_dict(QueueOf(g))
       IN ret' = from_dict(data, nextId, resolvable, Members)
    /\ op' = [name |-> "from_dict", g |-> g]
    /\ UNCHANGED <<queues, heap, nextInst, nextId, addCap>>
    /\ UNCHANGED persistence

GetQueue(g) ==
    /\ Registered(g) \/ nextInst <= MaxInst
    /\ LET r == get_queue(queues, g, nextInst)
           built == IF r.ret \in DOMAIN heap THEN heap
                    ELSE [i \in DOMAIN heap \cup {r.ret} |->
                            IF i = r.ret THEN AdvancedQueue(g, 0) ELSE heap[i]]
       IN /\ queues' = r.qs
          /\ heap' = Live(r.qs, built)
          /\ nextInst' = IF r.ret = nextInst THEN nextInst + 1 ELSE nextInst
          /\ ret' = r.ret
    /\ op' = [name |-> "get_queue", g |-> g]
    /\ UNCHANGED <<nextId, addCap>>
    /\ UNCHANGED persistence

RemoveQueue(g) ==
    /\ LET r == remove_queue(queues, g)
       IN /\ queues' = r.qs
          /\ heap' = Live(r.qs, heap)
          /\ ret' = r.ret
    /\ op' = [name |-> "remove_queue", g |-> g]
    /\ UNCHANGED <<nextInst, nextId, addCap>>
    /\ UNCHANGED persistence

CleanupGuildData(g) ==
    /\ LET r == cleanup_guild_data(queues, g)
       IN /\ queues' = r.qs
          /\ heap' = Live(r.qs, heap)
          /\ ret' = r.ret
    /\ op' = [name |-> "cleanup_guild_data", g |-> g]
    /\ UNCHANGED <<nextInst, nextId, addCap>>
    /\ UNCHANGED persistence

\* a call or a step of the persistence machinery that leaves the queues alone
PersistenceStep(name) ==
    /\ op' = [name |-> name, g |-> 0]
    /\ ret' = None
    /\ UNCHANGED <<queues, heap, nextInst, nextId, addCap, today>>

StartPersistenceTask ==
    /\ nextTask <= MaxTasks \/ (save_task # NoTask /\ ~done(tasks[save_task]))
    /\ LET r == start_persistence_task(save_task, tasks, nextTask)
       IN /\ save_task' = r.save_task
          /\ tasks' = r.tasks
          /\ nextTask' = IF r.save_task = nextTask THEN nextTask + 1 ELSE nextTask
    /\ PersistenceStep("start_persistence_task")
    /\ UNCHANGED statistics

StopPersistenceTask ==
    /\ tasks' = stop_persistence_task(save_task, tasks)
    /\ PersistenceStep("stop_persistence_task")
    /\ UNCHANGED <<statistics, save_task, nextTask>>

\* asyncio.sleep(self.save_interval) returns in task t: a save pass begins
TimerFires(t) ==
    /\ t \in DOMAIN tasks
    /\ tasks[t].pc = "sleep" /\ ~tasks[t].cancel
    /\ tasks' = [tasks EXCEPT ![t] = begin_pass(@, queues, heap)]
    /\ PersistenceStep("begin_pass")
    /\ UNCHANGED <<statistics, save_task, nextTask>>

\* the store write task t waits for returns (the row is in the table) or raises; a
\* full table takes no row
WriteDone(t, ok) ==
    /\ t \in DOMAIN tasks
    /\ tasks[t].pc = "save" /\ ~tasks[t].cancel
    /\ ok => Len(statistics) < MaxRows
    /\ IF ok
       THEN /\ statistics' =
                  Append(statistics, Row(today, Head(tasks[t].todo), tasks[t].data))
            /\ tasks' = [tasks EXCEPT ![t] = write_done(@, queues, heap)]
            /\ PersistenceStep("write_done")
       ELSE /\ statistics' = statistics
            /\ tasks' = [tasks EXCEPT ![t] = write_failed(@)]
            /\ PersistenceStep("write_failed")
    /\ UNCHANGED <<save_task, nextTask>>

\* the event loop delivers the requested cancellation to task t
Cancelled(t, landed) ==
    /\ t \in DOMAIN tasks
    /\ tasks[t].cancel /\ ~done(tasks[t])
    /\ landed => (tasks[t].pc = "save" /\ Len(statistics) < MaxRows)
    /\ statistics' =
          IF landed
          THEN Append(statistics, Row(today, Head(tasks[t].todo), tasks[t].data))
          ELSE statistics
    /\ tasks' = LiveTasks(save_task, [tasks EXCEPT ![t] = cancelled(@, landed)])
    /\ PersistenceStep("cancelled")
    /\ UNCHANGED <<save_task, nextTask>>

\* the date changes
NextDay ==
    /\ today < MaxDay
    /\ today' = today + 1
    /\ op' = [name |-> "next_day", g |-> 0]
    /\ ret' = None
    /\ UNCHANGED <<queues, heap, nextInst, nextId, addCap, statistics, save_task, tasks,
                   nextTask>>

\* the process ends and is started again: a new QueueManager(), the table stays
Restart ==
    /\ queues' = [g \in Guilds |-> NoQueue]
    /\ heap' = EmptyDict
    /\ nextInst' = 1
    /\ nextId' = 1
    /\ addCap' = LoadRunAdds
    /\ save_task' = NoTask
    /\ tasks' = EmptyDict
    /\ nextTask' = 1
    /\ op' = [name |-> "restart", g |-> 0]
    /\ ret' = None
    /\ UNCHANGED <<statistics, today>>

\* cog_load's load_all_queues(self.bot), the first call on a new manager;
\* bot.get_guild finds the guilds bot_guilds, and `failing` are the rows of the table
\* (by row number) whose stat_data json.loads or from_dict raises on
LoadAllQueues(bot_guilds, failing) ==
    /\ op.name \in {"init", "restart"}
    /\ \E p \in StatisticsOrders(statistics, today) :
          LET stats == [i \in 1..Len(p) |->
                          IF p[i] \in failing
                          THEN [statistics[p[i]] EXCEPT !.stat_data = Damaged]
                          ELSE statistics[p[i]]]
              r == load_all_queues(queues, heap, stats, bot_guilds, nextInst, nextId)
          IN /\ queues' = r.qs
             /\ heap' = r.heap
             /\ nextInst' = r.nextInst
             /\ nextId' = r.nextId
             /\ addCap' = r.nextId - 1 + LoadRunAdds
    /\ op' = [name |-> "load_all_queues", g |-> 0, bot_guilds |-> bot_guilds,
              failing |-> failing]
    /\ ret' = None
    /\ UNCHANGED persistence

-----------------------------------------------------------------------------
(* Specifications *)

\* an empty statistics table, and QueueManager.__init__'s self._save_task = None
InitPersistence ==
    /\ statistics = <<>>
    /\ today = 1
    /\ save_task = NoTask
    /\ tasks = EmptyDict
    /\ nextTask = 1

\* QueueManager.__init__
InitManagerWith(cap) ==
    /\ queues = [g \in Guilds |-> NoQueue]
    /\ heap = EmptyDict
    /\ nextInst = 1
    /\ nextId = 1
    /\ op = [name |-> "init", g |-> 0]
    /\ ret = None
    /\ addCap = cap
    /\ InitPersistence

\* a manager whose guild 1 has a fresh queue AdvancedQueue(1, max_size)
InitQueueWith(max_size, cap) ==
    /\ queues = [g \in Guilds |-> IF g = 1 THEN 1 ELSE NoQueue]
    /\ heap = [i \in {1} |-> AdvancedQueue(1, max_size)]
    /\ nextInst = 2
    /\ nextId = 1
    /\ op = [name |-> "init", g |-> 0]
    /\ ret = None
    /\ addCap = cap
    /\ InitPersistence

\* the indexes callers pass: in range, out of range, negative
Indexes == -2..2

\* One queue under every call that changes pending
Init == InitQueueWith(0, MaxAdds)

Next ==
    \/ \E uri \in {"a", "b"} : Add(1, uri, 7, 0)
    \/ AddNext(1, "a", 7)
    \/ Get(1)
    \/ \E index \in Indexes : Remove(1, index)
    \/ \E uri \in {"a", "b"} : RemoveByUri(1, uri)
    \/ Clear(1)
    \/ \E from_index \in Indexes, to_index \in Indexes : Move(1, from_index, to_index)
    \/ Shuffle(1)
    \/ ToggleShuffle(1)

Spec == Init /\ [][Next]_vars

\* One queue without shuffle, under add with priorities, add_next and get
InitPriority == InitQueueWith(WideMaxSize, PriorityRunAdds)

NextPriority ==
    \/ \E priority \in {0, 1, 5} : Add(1, "a", NoMember, priority)
    \/ AddNext(1, "a", NoMember)
    \/ Get(1)

SpecPriority == InitPriority /\ [][NextPriority]_vars

\* One queue under add and get only, long enough for the history to overflow
InitHistory == InitQueueWith(0, HistoryRunAdds)

NextHistory ==
    \/ Add(1, "a", NoMember, 0)
    \/ Get(1)

SpecHistory == InitHistory /\ [][NextHistory]_vars

\* One queue put in shuffle mode by toggle_shuffle() while empty, under add and get
InitShuffle ==
    /\ queues = [g \in Guilds |-> IF g = 1 THEN 1 ELSE NoQueue]
    /\ heap = [i \in {1} |-> toggle_shuffle(AdvancedQueue(1, WideMaxSize), <<>>).q]
    /\ nextInst = 2
    /\ nextId = 1
    /\ op = [name |-> "toggle_shuffle", g |-> 1]
    /\ ret = TRUE
    /\ addCap = ShuffleRunAdds
    /\ InitPersistence

NextShuffle ==
    \/ \E uri \in Uris : Add(1, uri, NoMember, 0)
    \/ Get(1)

SpecShuffle == InitShuffle /\ [][NextShuffle]_vars

\* One wide queue given entries of priority 0, 5 and 999 (the play-next entries of
\* the previous button), under shuffle(), toggle_shuffle() and get()
InitReorder == InitQueueWith(WideMaxSize, ReorderRunAdds)

NextReorder ==
    \/ Add(1, "a", NoMember, 0)
    \/ Add(1, "b", NoMember, 5)
    \/ AddNext(1, "c", NoMember)
    \/ Get(1)
    \/ Shuffle(1)
    \/ ToggleShuffle(1)
    \/ AddToFavorites(1, "a")

SpecReorder == InitReorder /\ [][NextReorder]_vars

\* the limits callers pass to generate_autoplay_suggestions
SuggestionLimits == 0..2

\* One wide queue under add and get of tracks of two artists and of a track without
\* author, the autoplay switch, and generate_autoplay_suggestions with and without a
\* current track
InitAutoplay == InitQueueWith(WideMaxSize, AutoplayRunAdds)

NextAutoplay ==
    \/ \E uri \in Uris : Add(1, uri, NoMember, 0)
    \/ Get(1)
    \/ ToggleAutoplay(1)
    \/ \E current_track \in Uris \cup {NoTrack}, limit \in SuggestionLimits,
          service \in ServiceOutcomes :
            GenerateAutoplaySuggestions(1, current_track, limit, service)

SpecAutoplay == InitAutoplay /\ [][NextAutoplay]_vars

\* One queue constructed with a capacity of its own, AdvancedQueue(1, WideMaxSize),
\* under add, get and the round trip
InitCapacity == InitQueueWith(WideMaxSize, CapacityRunAdds)

NextCapacity ==
    \/ \E uri \in {"a", "b"} : Add(1, uri, NoMember, 0)
    \/ Get(1)
    \/ RoundTrip(1)

SpecCapacity == InitCapacity /\ [][NextCapacity]_vars

\* what the search may resolve of the uris the round-trip specification adds
Resolvables == SUBSET {"a", "b"}

\* One queue under the calls that change what to_dict saves, and the round trip
InitRoundTrip == InitQueueWith(0, RoundTripAdds)

NextRoundTrip ==
    \/ Add(1, "a", 7, 0)
    \/ Add(1, "b", NoMember, 5)
    \/ Get(1)
    \/ ToggleShuffle(1)
    \/ ToggleRepeat(1)
    \/ ToggleAutoplay(1)
    \/ AddToFavorites(1, "a")
    \/ RemoveFromFavorites(1, "a")
    \/ RoundTrip(1)
    \/ \E resolvable \in Resolvables : FromDict(1, resolvable)

SpecRoundTrip == InitRoundTrip /\ [][NextRoundTrip]_vars

\* The manager with two guilds, under its own calls and the calls on the queues: both
\* guilds are looked up, removed, added to, played and cleared; guild 1 is also put
\* under the reordering calls and the mode toggles
InitManager == InitManagerWith(MgrMaxAdds)

NextManager ==
    \/ \E g \in Guilds :
        \/ GetQueue(g)
        \/ RemoveQueue(g)
        \/ CleanupGuildData(g)
        \/ Add(g, "a", 7, 0)
        \/ Get(g)
        \/ Clear(g)
        \/ AddToFavorites(g, "a")
    \/ ToggleShuffle(1)
    \/ Remove(1, 0)
    \/ Move(1, 0, 1)
    \/ Shuffle(1)
    \/ ToggleRepeat(1)
    \/ RemoveFromFavorites(1, "a")

SpecManager == InitManager /\ [][NextManager]_vars

\* the limits callers pass to get_history
Limits == 0..2

\* One queue under the calls that take a position or a count: peek, remove, move and
\* get_history, with add and get to fill pending and history
InitIndex == InitQueueWith(0, IndexRunAdds)

NextIndex ==
    \/ \E uri \in {"a", "b"} : Add(1, uri, 7, 0)
    \/ Get(1)
    \/ \E index \in Indexes : Peek(1, index)
    \/ \E index \in Indexes : Remove(1, index)
    \/ \E from_index \in Indexes, to_index \in Indexes : Move(1, from_index, to_index)
    \/ \E limit \in Limits : GetHistory(1, limit)

SpecIndex == InitIndex /\ [][NextIndex]_vars

\* One queue under add, get, remove and clear, with tracks of two artists and a track
\* without author, asked for its statistics
InitStats == InitQueueWith(WideMaxSize, StatsRunAdds)

NextStats ==
    \/ \E uri \in {"a", "c", "d"}, requester \in {7, NoMember} : Add(1, uri, requester, 0)
    \/ Get(1)
    \/ Remove(1, 0)
    \/ Clear(1)
    \/ GetQueueStats(1)

SpecStats == InitStats /\ [][NextStats]_vars

\* a manager whose guilds all have a fresh queue, registered in ascending order
InitRegistered(cap) ==
    /\ queues = [g \in Guilds |-> g]
    /\ heap = [i \in Guilds |-> AdvancedQueue(i, 0)]
    /\ nextInst = Cardinality(Guilds) + 1
    /\ nextId = 1
    /\ op = [name |-> "init", g |-> 0]
    /\ ret = None
    /\ addCap = cap
    /\ InitPersistence

\* The periodic-save task over a registry of two queues: started and stopped at any
\* time, its timer firing, its store writes returning or raising, a requested
\* cancellation being delivered, and a call between the steps that changes what is
\* saved (no TrackInfo is constructed)
InitPersist == InitRegistered(0)

NextPersist ==
    \/ StartPersistenceTask
    \/ StopPersistenceTask
    \/ \E t \in DOMAIN tasks :
        \/ TimerFires(t)
        \/ \E ok \in BOOLEAN : WriteDone(t, ok)
        \/ \E landed \in BOOLEAN : Cancelled(t, landed)
    \/ AddToFavorites(1, "a")

SpecPersist == InitPersist /\ [][NextPersist]_vars

\* The same, with what the event loop and the store guarantee: a sleep that is not
\* cancelled returns after save_interval, a store write returns or raises, and a
\* requested cancellation is delivered (each of these steps changes `tasks`)
FairPersist ==
    \A t \in 1..MaxTasks :
        /\ WF_tasks(TimerFires(t))
        /\ WF_tasks(\E ok \in BOOLEAN : WriteDone(t, ok))
        /\ WF_tasks(\E landed \in BOOLEAN : Cancelled(t, landed))

SpecPersistFair == SpecPersist /\ FairPersist

\* The periodic-save task while queues are created by get_queue and deleted by
\* remove_queue and cleanup_guild_data, between its passes and at the store writes of
\* a pass
InitRegistry == InitManagerWith(0)

NextRegistry ==
    \/ \E g \in Guilds :
        \/ GetQueue(g)
        \/ RemoveQueue(g)
        \/ CleanupGuildData(g)
    \/ StartPersistenceTask
    \/ \E t \in DOMAIN tasks :
        \/ TimerFires(t)
        \/ \E ok \in BOOLEAN : WriteDone(t, ok)

SpecRegistry == InitRegistry /\ [][NextRegistry]_vars

\* The process over several runs and days: at its start the queues are loaded from
\* the table; then queues are looked up and added to, the periodic task is started
\* and saves them; the date changes; the process is restarted
InitLoad == InitManagerWith(LoadRunAdds)

NextLoad ==
    \/ LoadAllQueues(BotGuilds, {})
    \/ \E g \in Guilds : GetQueue(g)
    \/ Add(1, "a", NoMember, 0)
    \/ StartPersistenceTask
    \/ \E t \in DOMAIN tasks :
        \/ TimerFires(t)
        \/ \E ok \in BOOLEAN : WriteDone(t, ok)
    \/ NextDay
    \/ Restart

SpecLoad == InitLoad /\ [][NextLoad]_vars

\* Two guilds whose queues are saved by the periodic task; the process is restarted
\* and load_all_queues runs with a bot that is or is not a member of each guild any
\* more, and with any of the stored rows failing to restore
InitLoadFail == InitRegistered(LoadRunAdds)

NextLoadFail ==
    \/ \E bot_guilds \in SUBSET Guilds, failing \in SUBSET (1..Len(statistics)) :
          LoadAllQueues(bot_guilds, failing)
    \/ \E g \in Guilds : Add(g, "a", NoMember, 0)
    \/ StartPersistenceTask
    \/ \E t \in DOMAIN tasks :
        \/ TimerFires(t)
        \/ \E ok \in BOOLEAN : WriteDone(t, ok)
    \/ Restart

SpecLoadFail == InitLoadFail /\ [][NextLoadFail]_vars

-----------------------------------------------------------------------------
(* Properties *)

Pending(g) == QueueOf(g).queue

IsAddCall(o) == o.name \in {"add", "add_next"}

\* C1: capacity invariant. In every reachable state the pending sequence of every
\* registered queue holds at most max_size entries, whatever sequence of add,
\* add_next, get, remove, remove_by_uri, move, shuffle, toggle_shuffle and clear
\* calls built it.
C1_Capacity ==
    \A g \in Guilds : Registered(g) => Len(Pending(g)) <= QueueOf(g).max_size

\* C1 witness: a queue at capacity that a move has just reordered
C1_Witness ==
    /\ op.name = "move" /\ ret = TRUE
    /\ Len(Pending(op.g)) = QueueOf(op.g).max_size

\* C2: add and add_next on a queue with len(pending) = max_size return False and
\* leave the whole queue object as it was; on a queue with len(pending) < max_size
\* they return True and pending is one entry longer.
C2_AddAtCapacity ==
    [][\A g \in Guilds :
        (Registered(g) /\ IsAddCall(op') /\ op'.g = g) =>
            IF Len(Pending(g)) = QueueOf(g).max_size
            THEN ret' = FALSE /\ heap'[queues[g]] = heap[queues[g]]
            ELSE Len(Pending(g)) < QueueOf(g).max_size =>
                    /\ ret' = TRUE
                    /\ Len(heap'[queues[g]].queue) = Len(Pending(g)) + 1]_vars

\* C2 witness: an add was rejected on a full queue that an earlier get() had made
\* room in
C2_Witness ==
    /\ IsAddCall(op) /\ ret = FALSE
    /\ Len(Pending(op.g)) = QueueOf(op.g).max_size
    /\ QueueOf(op.g).total_tracks_played > 0

Played(g) == QueueOf(g).played

\* every TrackInfo the queue of g was given, when nothing was removed or cleared
Given(g) == Range(Played(g)) \cup Range(Pending(g))

\* C3: FIFO. While shuffle is off and every entry was added with priority 0, the
\* entries get() has returned, followed by the pending ones, are the entries in the
\* order they were added (identities are handed out in the order of the successful
\* adds), for every interleaving of add and get.
C3_Fifo ==
    \A g \in Guilds :
        (Registered(g) /\ ~QueueOf(g).shuffle_enabled
                       /\ \A e \in Given(g) : e.priority = 0) =>
            LET order == Played(g) \o Pending(g)
            IN \A i \in 1..Len(order) : order[i].id = i

\* C3 witness: gets interleaved with adds, all of priority 0
C3_Witness ==
    /\ op.name = "get" /\ ret # None
    /\ Len(Played(1)) >= 2 /\ Len(Pending(1)) >= 1
    /\ Pending(1)[1].id > QueueOf(1).max_size
    /\ \A e \in Given(1) : e.priority = 0

\* e is played before f: higher priority, or equal priority and added earlier
Before(e, f) == e.priority > f.priority \/ (e.priority = f.priority /\ e.id < f.id)

\* C4: priority ordering. With priorities >= 0 and shuffle off, pending is always
\* sorted by non-increasing priority with equal priorities in the order of their
\* adds, and what get() returned goes before every entry still pending.
C4_PriorityOrder ==
    \A g \in Guilds :
        Registered(g) =>
            /\ \A i, j \in 1..Len(Pending(g)) :
                  i < j => Before(Pending(g)[i], Pending(g)[j])
            /\ (op.name = "get" /\ op.g = g /\ ret # None) =>
                  \A e \in Range(Pending(g)) : Before(ret, e)

\* C4 witness: priorities 5, 1, 5, 0 added in that order drained as first 5,
\* second 5, 1, 0
C4_Witness ==
    /\ op.name = "get"
    /\ Len(Played(1)) = 4
    /\ [i \in 1..4 |-> Played(1)[i].priority] = <<5, 5, 1, 0>>
    /\ [i \in 1..4 |-> Played(1)[i].id] = <<1, 3, 2, 4>>

\* C5: add_next supremacy. When add_next succeeds on a queue that was only ever
\* given priority-0 entries and get() is the next call, get() returns the entry
\* add_next added.
C5_AddNextSupremacy ==
    [][\A g \in Guilds :
        (/\ Registered(g)
         /\ op.name = "add_next" /\ op.g = g /\ ret = TRUE
         /\ \A e \in Given(g) : e.id # nextId - 1 => e.priority = 0
         /\ op'.name = "get" /\ op'.g = g) =>
            ret'.id = nextId - 1]_vars

\* C5 witness: get() returned the play-next entry, added last, ahead of two normal
\* entries added before it
C5_Witness ==
    /\ op.name = "get" /\ ret # None
    /\ ret.priority = PlayNextPriority /\ ret.id = nextId - 1
    /\ Len(Pending(1)) >= 2
    /\ \A e \in Range(Pending(1)) : e.priority = 0 /\ e.id < ret.id

History(g) == QueueOf(g).history

\* C6: history bound. The history never holds more than 100 entries and always is
\* the last min(100, n) entries get() returned, oldest first, n being the number of
\* successful get() calls; after more than 100 of them its length is exactly 100.
C6_HistoryBound ==
    \A g \in Guilds :
        Registered(g) =>
            LET n == Len(Played(g))
            IN /\ Len(History(g)) <= 100
               /\ History(g) = SubSeq(Played(g), n - Min(100, n) + 1, n)
               /\ n = QueueOf(g).total_tracks_played
               /\ n > 100 => Len(History(g)) = 100

\* C6 witness: more than 100 entries were played and the oldest was evicted
C6_Witness ==
    /\ op.name = "get" /\ ret # None
    /\ Len(Played(1)) > 100
    /\ Len(History(1)) = 100
    /\ History(1)[1].id = Len(Played(1)) - 99
    /\ History(1)[100] = ret

UrisOf(entries) == {e.uri : e \in entries}

\* C7: shuffle recency avoidance. When get() is called with shuffle on and more than
\* one entry pending, it returns a pending entry whose uri is not among the uris of
\* the last 3 history entries whenever such an entry is pending (so it returns a
\* recently played one only when every pending entry is recently played); with at
\* least 4 distinct uris pending, the uri returned differs from the uris the two
\* get() calls before it returned.
C7_ShuffleRecency ==
    [][\A g \in Guilds :
        (/\ Registered(g)
         /\ op'.name = "get" /\ op'.g = g
         /\ QueueOf(g).shuffle_enabled
         /\ Len(Pending(g)) > 1) =>
            LET recent == UrisOf(Range(LastN(History(g), 3)))
                lastTwo == UrisOf(Range(LastN(Played(g), 2)))
                pendingUris == UrisOf(Range(Pending(g)))
            IN /\ ret'.id \in {e.id : e \in Range(Pending(g))}
               /\ (pendingUris \ recent # {}) => ret'.uri \notin recent
               /\ ret'.uri \in recent => pendingUris \subseteq recent
               /\ Cardinality(pendingUris) >= 4 => ret'.uri \notin lastTwo]_vars

\* C7 witness: get() in shuffle mode chose among 4 distinct uris of which one,
\* still pending, was among the last 3 played before the call
C7_Witness ==
    /\ op.name = "get" /\ ret # None
    /\ QueueOf(1).shuffle_enabled
    /\ Cardinality(UrisOf(Range(Pending(1))) \cup {ret.uri}) >= 4
    /\ Len(History(1)) >= 2
    /\ \E e \in Range(Pending(1)) :
          e.uri \in UrisOf(Range(LastN(SubSeq(History(1), 1, Len(History(1)) - 1), 3)))

\* C8: round-trip persistence. from_dict(to_dict(q)) with a search that resolves every
\* uri has the pending entries of q in the same order (uri and priority at each
\* position), the same shuffle_enabled, repeat_mode and autoplay_enabled, the same
\* total_tracks_added and total_tracks_played, and the same favorites.
C8_RoundTrip ==
    op.name = "round_trip" =>
        LET q == QueueOf(op.g)
        IN /\ Len(ret.queue) = Len(q.queue)
           /\ \A i \in 1..Len(q.queue) :
                 /\ ret.queue[i].uri = q.queue[i].uri
                 /\ ret.queue[i].priority = q.queue[i].priority
           /\ ret.shuffle_enabled = q.shuffle_enabled
           /\ ret.repeat_mode = q.repeat_mode
           /\ ret.autoplay_enabled = q.autoplay_enabled
           /\ ret.total_tracks_added = q.total_tracks_added
           /\ ret.total_tracks_played = q.total_tracks_played
           /\ ret.favorites = q.favorites

\* C8 witness: a queue with two pending entries of different uri and priority, a
\* played entry, a favorite and every mode switched away from its default went
\* through the round trip
C8_Witness ==
    /\ op.name = "round_trip"
    /\ Len(Pending(1)) = 2
    /\ Pending(1)[1].priority = 5 /\ Pending(1)[2].priority = 0
    /\ Pending(1)[1].uri # Pending(1)[2].uri
    /\ QueueOf(1).total_tracks_played > 0
    /\ QueueOf(1).favorites # {}
    /\ QueueOf(1).shuffle_enabled /\ QueueOf(1).autoplay_enabled
    /\ QueueOf(1).repeat_mode = "queue"

\* the call o was one of `names` on the queue of guild g
OnQueue(o, g, names) == o.g = g /\ o.name \in names

\* C9: queue lifecycle. A registered queue stays registered, as the same instance,
\* through every call except remove_queue / cleanup_guild_data of its guild, and
\* get_queue returns that instance. In particular a call that leaves pending empty
\* drops nothing: history changes only by get() appending what it returned,
\* favorites and the mode flags only by the calls that set them, and the
\* preferences not at all.
C9_Lifecycle ==
    [][\A g \in Guilds :
        Registered(g) =>
            \/ OnQueue(op', g, {"remove_queue", "cleanup_guild_data"})
            \/ LET i == queues[g]
                   q == heap[i]
               IN /\ queues'[g] = i
                  /\ i \in DOMAIN heap'
                  /\ OnQueue(op', g, {"get_queue"}) => ret' = i
                  /\ Len(heap'[i].queue) = 0 =>
                        /\ heap'[i].history =
                              IF OnQueue(op', g, {"get"}) /\ Len(q.queue) > 0
                              THEN HistoryAppend(q.history, ret')
                              ELSE q.history
                        /\ \/ OnQueue(op', g, {"add_to_favorites", "remove_from_favorites"})
                           \/ heap'[i].favorites = q.favorites
                        /\ \/ OnQueue(op', g, {"toggle_shuffle", "shuffle"})
                           \/ heap'[i].shuffle_enabled = q.shuffle_enabled
                        /\ \/ OnQueue(op', g, {"toggle_repeat", "set_repeat_mode"})
                           \/ heap'[i].repeat_mode = q.repeat_mode
                        /\ \/ OnQueue(op', g, {"toggle_autoplay"})
                           \/ heap'[i].autoplay_enabled = q.autoplay_enabled
                        /\ heap'[i].user_preferences = q.user_preferences]_vars

\* C9 witness: get_queue returned the first instance of guild 1 after its pending
\* had been played empty, with its history, favorite, mode and preferences in place
C9_Witness ==
    /\ op = [name |-> "get_queue", g |-> 1]
    /\ ret = 1 /\ queues[1] = 1
    /\ Len(Pending(1)) = 0
    /\ Len(History(1)) >= 1
    /\ QueueOf(1).favorites # {}
    /\ QueueOf(1).repeat_mode = "track"
    /\ 7 \in DOMAIN QueueOf(1).user_preferences

\* C10: manager isolation. A call on guild a (any queue call, get_queue or
\* remove_queue) leaves the registry entry and the whole queue object of every other
\* registered guild b as they were, and two guilds never share an instance.
C10_Isolation ==
    [][\A a, b \in Guilds :
        (a # b /\ Registered(b)) =>
            /\ Registered(a) => queues[a] # queues[b]
            /\ op'.g = a =>
                  /\ queues'[b] = queues[b]
                  /\ queues[b] \in DOMAIN heap'
                  /\ heap'[queues[b]] = heap[queues[b]]
                  /\ queues'[a] # queues'[b]]_vars

\* C10 witness: guild 1 was cleared while guild 2 held a pending entry, a played one
\* and a favorite
C10_Witness ==
    /\ op = [name |-> "clear", g |-> 1]
    /\ Registered(1) /\ Registered(2)
    /\ Len(Pending(2)) = 1 /\ Len(History(2)) = 1
    /\ QueueOf(2).favorites # {}

\* the indexes 0..len(pending)-1 of the queue of guild g
InRange(g, index) == index >= 0 /\ index < Len(Pending(g))

\* C13: index range errors for peek/remove. For every integer index outside
\* 0..len(pending)-1, peek(index) and remove(index) return None and leave pending and
\* all other queue state unchanged; peek never mutates; for an index inside the range
\* remove returns the entry at that position and pending shrinks by exactly that entry.
C13_IndexRange ==
    [][\A index \in Indexes :
        /\ (op'.name = "peek" /\ Peek(1, index)) =>
              /\ heap' = heap
              /\ ~InRange(1, index) => ret' = None
        /\ (op'.name = "remove" /\ Remove(1, index)) =>
              IF InRange(1, index)
              THEN /\ ret' = Pending(1)[index + 1]
                   /\ heap'[queues[1]] =
                         [QueueOf(1) EXCEPT !.queue = RemoveAt(Pending(1), index + 1)]
              ELSE ret' = None /\ heap' = heap]_vars

\* C14: move(from_index, to_index) returns False and leaves pending unchanged whenever
\* from_index or to_index lies outside 0..len(pending)-1; when both are in range it
\* returns True, the moved entry ends at position to_index, all other entries keep
\* their relative order, and len(pending) is unchanged.
C14_Move ==
    [][\A from_index \in Indexes, to_index \in Indexes :
        (op'.name = "move" /\ Move(1, from_index, to_index)) =>
            LET old == Pending(1)
                new == heap'[queues[1]].queue
            IN IF InRange(1, from_index) /\ InRange(1, to_index)
               THEN /\ ret' = TRUE
                    /\ Len(new) = Len(old)
                    /\ new[to_index + 1] = old[from_index + 1]
                    /\ RemoveAt(new, to_index + 1) = RemoveAt(old, from_index + 1)
               ELSE ret' = FALSE /\ new = old]_vars

\* C15: get_history(limit) never mutates the queue and, for every limit >= 0, returns
\* exactly the min(limit, len(history)) most recently played entries in play order
\* (most recent last), so the result length is at most limit.
C15_GetHistory ==
    [][\A limit \in Limits :
        (op'.name = "get_history" /\ GetHistory(1, limit)) =>
            LET n == Len(History(1))
            IN /\ heap' = heap
               /\ ret' = SubSeq(History(1), n - Min(limit, n) + 1, n)
               /\ Len(ret') <= limit]_vars

IdsOf(entries) == {e.id : e \in entries}

\* C20: entry exclusivity. After every call no entry is both in pending and in the
\* history, no entry occurs twice in pending, and every history entry is one get()
\* returned (so what remove, remove_by_uri or clear took out is never in the history);
\* remove, remove_by_uri, clear, move and shuffle leave the history and
\* total_tracks_played unchanged.
C20_Exclusivity ==
    [][\A g \in Guilds :
        (Registered(g) /\ queues'[g] = queues[g]) =>
            LET q == heap'[queues[g]]
            IN /\ IdsOf(Range(q.queue)) \cap IdsOf(Range(q.history)) = {}
               /\ IdsOf(Range(q.queue)) \cap IdsOf(Range(q.played)) = {}
               /\ Cardinality(IdsOf(Range(q.queue))) = Len(q.queue)
               /\ Range(q.history) \subseteq Range(q.played)
               /\ OnQueue(op', g, {"remove", "remove_by_uri", "clear", "move",
                                    "shuffle"}) =>
                     /\ q.history = History(g)
                     /\ q.played = Played(g)
                     /\ q.total_tracks_played = QueueOf(g).total_tracks_played]_vars

\* C20 witness: remove took an entry out of a queue that had played one entry and
\* still holds another
C20_Witness ==
    /\ op.name = "remove" /\ ret # None
    /\ Len(History(1)) >= 1 /\ Len(Pending(1)) >= 1
    /\ ret.id \notin IdsOf(Range(History(1)))

\* the entries of pending of guild g whose track has uri u
CountUri(g, u) == Cardinality({i \in 1..Len(Pending(g)) : Pending(g)[i].uri = u})

\* the sum of the track lengths over pending of guild g
PendingDuration(g) ==
    CountUri(g, "a") * TrackLength["a"] + CountUri(g, "b") * TrackLength["b"]
        + CountUri(g, "c") * TrackLength["c"] + CountUri(g, "d") * TrackLength["d"]

\* the authors of the pending tracks of guild g that have one
PendingArtists(g) == {TrackAuthor[e.uri] : e \in Range(Pending(g))} \ {""}

\* what C19 says of the counts: total_tracks, total_duration and average_duration are
\* those of the current pending, all zero when it is empty, and the queue is unchanged
StatsCounts(g) ==
    /\ heap' = heap
    /\ ret'.total_tracks = Len(Pending(g))
    /\ ret'.total_duration = PendingDuration(g)
    /\ ret'.average_duration =
          IF Len(Pending(g)) = 0 THEN 0 ELSE PendingDuration(g) \div Len(Pending(g))
    /\ ret'.requesters = [m \in DOMAIN ret'.requesters |-> RequestedBy(Pending(g), m)]

\* a is an artist of pending of guild g that no other artist is counted more often than
MaximalArtist(g, a) ==
    /\ a \in PendingArtists(g)
    /\ \A b \in PendingArtists(g) : ByArtist(Pending(g), a) >= ByArtist(Pending(g), b)

\* C19 as stated: get_queue_stats() reports total_tracks = len(pending),
\* total_duration = the sum of the track lengths over pending, average_duration =
\* total_duration div total_tracks, zero counts and no most-requested artist when
\* pending is empty, otherwise a most-requested artist whose count in pending is
\* maximal; it never mutates the queue.
C19_StatsAsStated ==
    [][\A g \in Guilds :
        (Registered(g) /\ OnQueue(op', g, {"get_queue_stats"})) =>
            /\ StatsCounts(g)
            /\ IF Len(Pending(g)) = 0
               THEN ret'.most_requested_artist = NoArtist
               ELSE MaximalArtist(g, ret'.most_requested_artist)]_vars

\* C19, amended: as above, but there is no most-requested artist exactly when no
\* pending track has an author (an empty pending included); when one has, the
\* most-requested artist is an author whose count in pending is maximal.
C19_Stats ==
    [][\A g \in Guilds :
        (Registered(g) /\ OnQueue(op', g, {"get_queue_stats"})) =>
            /\ StatsCounts(g)
            /\ IF PendingArtists(g) = {}
               THEN ret'.most_requested_artist = NoArtist
               ELSE MaximalArtist(g, ret'.most_requested_artist)]_vars

\* C19 witness: the statistics of three pending tracks, two by one artist and one by
\* another, asked for after an entry had been played
C19_Witness ==
    /\ op.name = "get_queue_stats"
    /\ Len(Pending(1)) = 3 /\ Len(History(1)) >= 1
    /\ ret.total_tracks = 3
    /\ ret.most_requested_artist = "ABBA"
    /\ ByArtist(Pending(1), "ABBA") = 2 /\ ByArtist(Pending(1), "Queen") = 1

\* the guilds that have a queue
RegisteredGuilds == {g \in Guilds : Registered(g)}

\* C11: save_all_queues failure isolation. When the write of one guild's snapshot
\* failed during a pass, the pass has, once it is over, written the snapshot of every
\* other registered guild, and the failure was not raised (it did not end the task
\* that made the pass).
C11_SaveIsolation ==
    \A t \in DOMAIN tasks :
        tasks[t].failed # {} =>
            /\ done(tasks[t]) => tasks[t].stopped_in # "none"
            /\ tasks[t].pc = "sleep" =>
                  tasks[t].written = RegisteredGuilds \ tasks[t].failed

\* the tasks that are not done
ActiveTasks(ts) == {t \in DOMAIN ts : ~done(ts[t])}

\* C16: persistence-task start is idempotent. Through every sequence of
\* start_persistence_task / stop_persistence_task calls at most one periodic-save
\* task is active, and a start while the manager's task is not done creates no task
\* and leaves the running one as it is.
C16_StartIdempotent ==
    [][/\ Cardinality(ActiveTasks(tasks')) <= 1
       /\ (/\ op'.name = "start_persistence_task"
           /\ save_task # NoTask /\ ~done(tasks[save_task])) =>
              /\ tasks' = tasks
              /\ save_task' = save_task
              /\ nextTask' = nextTask]_vars

\* C16 witness: start was called while the second task, created after the first had
\* been stopped, was in the middle of a save pass
C16_Witness ==
    /\ op.name = "start_persistence_task"
    /\ save_task = 2 /\ nextTask = 3
    /\ tasks[save_task].pc = "save"
    /\ ActiveTasks(tasks) = {2}

\* C17: stop lets an in-flight save finish. If stop_persistence_task is called while
\* the task's save pass is suspended on a store write, the pass has written a snapshot
\* for every registered guild by the time the task ends; if it is called while the
\* task sleeps, the task saves nothing any more.
C17_StopLetsSaveFinish ==
    [][\A t \in DOMAIN tasks :
        /\ (tasks[t].cancel /\ tasks[t].stopped_in = "sleep") =>
              /\ statistics' = statistics
              /\ t \in DOMAIN tasks' => tasks'[t].pc # "save"
        /\ (/\ tasks[t].stopped_in = "save" /\ ~done(tasks[t])
            /\ t \in DOMAIN tasks' /\ done(tasks'[t])) =>
              tasks'[t].written = RegisteredGuilds]_vars

\* task t exists and is suspended at pc, with no cancellation requested
Waiting(t, pc) == t \in DOMAIN tasks /\ tasks[t].pc = pc /\ ~tasks[t].cancel

\* stop_persistence_task was called on task t (or the task is gone)
Stopped(t) == t \notin DOMAIN tasks \/ tasks[t].cancel \/ done(tasks[t])

\* C18: the periodic task survives store failures. A task ends only by a cancellation
\* that was requested, never by an error of a save pass; and unless
\* stop_persistence_task is called, every pass (successful or failed) comes to an end
\* and after it a further pass is eventually begun.
C18_Survives ==
    /\ [][\A t \in DOMAIN tasks :
            (~done(tasks[t]) /\ t \in DOMAIN tasks' /\ done(tasks'[t])) =>
                tasks[t].cancel]_tasks
    /\ \A t \in 1..MaxTasks :
          /\ Waiting(t, "sleep") ~> (Waiting(t, "save") \/ Stopped(t))
          /\ Waiting(t, "save") ~> (Waiting(t, "sleep") \/ Stopped(t))

\* C18 witness: a pass failed at its second write, after earlier passes had written,
\* and the task sleeps towards its next pass
C18_Witness ==
    /\ op.name = "write_failed"
    /\ Len(statistics) >= 3
    /\ \E t \in DOMAIN tasks :
          /\ Waiting(t, "sleep")
          /\ tasks[t].failed = {2} /\ tasks[t].written = {1}

\* the rows of guild g that get_statistics returns today, by row number
SnapshotsOf(g) ==
    {i \in 1..Len(statistics) :
        statistics[i].guild_id = g /\ statistics[i].date >= today - 1}

\* the row of guild g written last
LatestSnapshot(g) == CHOOSE i \in SnapshotsOf(g) : \A j \in SnapshotsOf(g) : j <= i

\* C12: load_all_queues restores the most recent snapshot. When the store returns one
\* or several snapshots for a guild the bot finds, the queue registered for that guild
\* after load_all_queues is the reconstruction of the snapshot written last (what
\* from_dict makes of it: compared by what to_dict saves of a queue).
C12_LoadMostRecent ==
    op.name = "load_all_queues" =>
        \A g \in BotGuilds :
            SnapshotsOf(g) # {} =>
                /\ Registered(g)
                /\ to_dict(QueueOf(g)) =
                      to_dict(from_dict(
                          json_round_trip(statistics[LatestSnapshot(g)].stat_data),
                          1, Uris, Members))

\* C21: get() effects. On an empty pending get() returns None and changes nothing;
\* otherwise it takes exactly one entry out of pending (the others keep their order),
\* returns it with its play_count one higher, adds one to total_tracks_played and
\* makes that entry the newest element of the history.
C21_GetEffects ==
    [][\A g \in Guilds :
        (Registered(g) /\ OnQueue(op', g, {"get"}) /\ queues'[g] = queues[g]) =>
            LET q == QueueOf(g)
                after == heap'[queues[g]]
            IN IF Len(q.queue) = 0
               THEN ret' = None /\ heap' = heap
               ELSE /\ \E k \in 1..Len(q.queue) :
                          /\ after.queue = RemoveAt(q.queue, k)
                          /\ ret'.id = q.queue[k].id
                          /\ ret'.play_count = q.queue[k].play_count + 1
                    /\ after.total_tracks_played = q.total_tracks_played + 1
                    /\ Len(after.history) >= 1
                    /\ after.history[Len(after.history)] = ret']_vars

\* C21 witness: in shuffle mode get() returned the second of two pending entries, now
\* the newest of two history entries
C21_Witness ==
    /\ op.name = "get" /\ ret # None
    /\ QueueOf(1).shuffle_enabled
    /\ Len(Pending(1)) = 1 /\ Pending(1)[1].id < ret.id
    /\ ret.play_count = 1
    /\ Len(History(1)) = 2 /\ History(1)[2] = ret

\* what C22 says of toggle_shuffle(): it returns the negation of the previous
\* shuffle_enabled and leaves shuffle_enabled equal to what it returned
ToggleNegates(g) ==
    OnQueue(op', g, {"toggle_shuffle"}) =>
        /\ ret' = ~QueueOf(g).shuffle_enabled
        /\ heap'[queues[g]].shuffle_enabled = ret'

\* C22 as stated: shuffle() always leaves shuffle_enabled true, for every queue state
\* including pending of length 0 or 1; toggle_shuffle() always returns the negation
\* of the previous shuffle_enabled and leaves shuffle_enabled equal to the value
\* returned.
C22_ShuffleFlagAsStated ==
    [][\A g \in Guilds :
        (Registered(g) /\ queues'[g] = queues[g]) =>
            /\ OnQueue(op', g, {"shuffle"}) => heap'[queues[g]].shuffle_enabled
            /\ ToggleNegates(g)]_vars

\* C22, amended: shuffle() leaves shuffle_enabled true when more than one entry is
\* pending and changes nothing at all (the flag included) when pending has length 0
\* or 1; toggle_shuffle() as stated.
C22_ShuffleFlag ==
    [][\A g \in Guilds :
        (Registered(g) /\ queues'[g] = queues[g]) =>
            /\ OnQueue(op', g, {"shuffle"}) =>
                  IF Len(Pending(g)) > 1
                  THEN heap'[queues[g]].shuffle_enabled
                  ELSE heap' = heap
            /\ ToggleNegates(g)]_vars

\* C22 witness: shuffle() was called on a queue with one pending entry and shuffle
\* mode off, and the mode is still off
C22_Witness ==
    /\ op.name = "shuffle"
    /\ Len(Pending(1)) = 1
    /\ ~QueueOf(1).shuffle_enabled

PriorityAbove0(t) == t.priority > 0

\* C23: shuffle permutes without loss. After shuffle() pending holds exactly the
\* entries it held before, every entry of priority > 0 precedes every entry of
\* priority <= 0, and the entries of priority > 0 keep their relative order; history,
\* favorites and the counters are unchanged.
C23_ShufflePermutes ==
    [][\A g \in Guilds :
        (Registered(g) /\ OnQueue(op', g, {"shuffle"}) /\ queues'[g] = queues[g]) =>
            LET q == QueueOf(g)
                after == heap'[queues[g]]
            IN /\ Len(after.queue) = Len(q.queue)
               /\ Range(after.queue) = Range(q.queue)
               /\ \A e \in Range(q.queue) :
                     Cardinality({i \in 1..Len(q.queue) : after.queue[i] = e}) =
                     Cardinality({i \in 1..Len(q.queue) : q.queue[i] = e})
               /\ \A i, j \in 1..Len(after.queue) :
                     (after.queue[i].priority > 0 /\ after.queue[j].priority <= 0) => i < j
               /\ SelectSeq(after.queue, PriorityAbove0) = SelectSeq(q.queue, PriorityAbove0)
               /\ after.history = q.history
               /\ after.favorites = q.favorites
               /\ after.total_tracks_added = q.total_tracks_added
               /\ after.total_tracks_played = q.total_tracks_played
               /\ after.user_preferences = q.user_preferences]_vars

\* C23 witness: shuffle() has just swapped the two entries of priority 0 behind an
\* entry of priority > 0 that stayed in front; the history and the favorites are not
\* empty
C23_Witness ==
    /\ op.name = "shuffle"
    /\ Len(Pending(1)) = 3
    /\ Pending(1)[1].priority > 0
    /\ Pending(1)[2].priority = 0 /\ Pending(1)[3].priority = 0
    /\ Pending(1)[3].id < Pending(1)[2].id
    /\ QueueOf(1).favorites # {}
    /\ History(1) # <<>>

\* C27: play-next under shuffle mode. With shuffle_enabled true and two or more
\* entries pending, get() never returns an entry of priority 0 while an entry added
\* by add_next (priority 999) is still pending.
C27_PlayNextUnderShuffle ==
    [][\A g \in Guilds :
        (/\ Registered(g) /\ OnQueue(op', g, {"get"}) /\ queues'[g] = queues[g]
         /\ QueueOf(g).shuffle_enabled
         /\ Len(Pending(g)) >= 2
         /\ \E e \in Range(Pending(g)) : e.priority = PlayNextPriority)
            => ret'.priority # 0]_vars

\* C24: partial restore. When the search finds no match (or fails) for some saved
\* tracks, from_dict still returns a queue: its pending is the saved pending
\* restricted to the entries that resolve, in their order (uri, priority and play
\* count of each), and the flags, the counters and the favorites are those saved,
\* however many entries were dropped.
C24_PartialRestore ==
    [][\A resolvable \in Resolvables :
        (op'.name = "from_dict" /\ FromDict(1, resolvable)) =>
            LET q == QueueOf(1)
                Resolves(e) == e.uri \in resolvable
                kept == SelectSeq(q.queue, Resolves)
            IN /\ Len(ret'.queue) = Len(kept)
               /\ \A i \in 1..Len(kept) :
                     /\ ret'.queue[i].uri = kept[i].uri
                     /\ ret'.queue[i].priority = kept[i].priority
                     /\ ret'.queue[i].play_count = kept[i].play_count
               /\ ret'.shuffle_enabled = q.shuffle_enabled
               /\ ret'.repeat_mode = q.repeat_mode
               /\ ret'.autoplay_enabled = q.autoplay_enabled
               /\ ret'.total_tracks_added = q.total_tracks_added
               /\ ret'.total_tracks_played = q.total_tracks_played
               /\ ret'.favorites = q.favorites]_vars

\* C24 witness: of two pending entries the first did not resolve and the second did;
\* the queue restored holds the second alone, with the counters, the favorite and the
\* modes of the saved queue
C24_Witness ==
    /\ op.name = "from_dict"
    /\ Len(Pending(1)) = 2
    /\ Pending(1)[1].uri # Pending(1)[2].uri
    /\ Len(ret.queue) = 1
    /\ ret.queue[1].uri = Pending(1)[2].uri
    /\ ret.total_tracks_added = 3 /\ ret.total_tracks_played = 1
    /\ ret.favorites # {}
    /\ ret.shuffle_enabled /\ ret.autoplay_enabled

\* C25: load_all_queues skips and isolates failures. A stored snapshot whose guild the
\* bot does not find creates no registry entry; a row whose restore raises registers
\* nothing, and every guild the bot finds that has a row whose restore does not raise
\* is registered with the reconstruction of one of those rows, whatever rows fail;
\* the call returns normally.
C25_LoadIsolates ==
    [][op'.name = "load_all_queues" =>
        /\ ret' = None
        /\ \A g \in Guilds \ op'.bot_guilds : queues'[g] = queues[g]
        /\ \A g \in op'.bot_guilds :
              LET good == SnapshotsOf(g) \ op'.failing
              IN IF good = {}
                 THEN queues'[g] = queues[g]
                 ELSE /\ queues'[g] # NoQueue
                      /\ \E i \in good :
                            to_dict(heap'[queues'[g]]) =
                            to_dict(from_dict(json_round_trip(statistics[i].stat_data),
                                              1, Uris, Members))]_vars

\* C25 witness: the table holds a row of guild 1 and, written after it, a row of
\* guild 2 with one pending track; the bot finds both guilds, the restore of the row
\* of guild 1 raised, and guild 2 alone is registered, with its track
C25_Witness ==
    /\ op.name = "load_all_queues"
    /\ op.bot_guilds = Guilds
    /\ Len(statistics) = 2
    /\ statistics[1].guild_id = 1 /\ statistics[2].guild_id = 2
    /\ op.failing = {1}
    /\ ~Registered(1)
    /\ Registered(2) /\ Len(Pending(2)) = 1

\* the suggestion s[i] is by the artist of the track current
SameAuthor(uri, current) ==
    /\ TrackAuthor[current] # "" /\ TrackAuthor[uri] # ""
    /\ Lower[TrackAuthor[uri]] = Lower[TrackAuthor[current]]

\* what C26 says apart from `no track appearing twice`: with autoplay_enabled false
\* the result is empty; with it true and the recommendation service unavailable the
\* result has at most limit tracks, all from the history, none with the current
\* track's uri, those by the current track's artist first; pending and history are
\* unchanged
AutoplayFallback ==
    LET q == QueueOf(1)
    IN /\ heap' = heap
       /\ ~q.autoplay_enabled => ret' = <<>>
       /\ (q.autoplay_enabled /\ op'.service = "unavailable") =>
             /\ Len(ret') <= op'.limit
             /\ \A i \in 1..Len(ret') :
                   /\ ret'[i] \in UrisOf(Range(q.history))
                   /\ ret'[i] # op'.current_track
             /\ \A i, j \in 1..Len(ret') :
                   (i < j /\ SameAuthor(ret'[j], op'.current_track))
                       => SameAuthor(ret'[i], op'.current_track)

\* C26: autoplay local fallback. With autoplay_enabled true and the recommendation
\* service unavailable, generate_autoplay_suggestions(current, limit) returns at most
\* limit tracks, all from the history, none with the current track's uri and no track
\* twice, the tracks by the current track's artist before the most-played fill-ins;
\* with autoplay_enabled false it returns an empty list; pending and history are
\* unchanged in both cases.
C26_AutoplayFallback ==
    [][op'.name = "generate_autoplay_suggestions" =>
        /\ AutoplayFallback
        /\ (QueueOf(1).autoplay_enabled /\ op'.service = "unavailable") =>
              \A i, j \in 1..Len(ret') : ret'[i] = ret'[j] => i = j]_vars

\* C28: restart after stop. Whenever start_persistence_task() is the most recent
\* start/stop call a periodic-save task is active and a save pass eventually runs,
\* also when start is called right after stop_persistence_task(), before the
\* cancelled task has finished: after every start_persistence_task() a pass is
\* eventually begun unless stop_persistence_task() is called.
C28_RestartAfterStop ==
    [](op.name = "start_persistence_task" =>
          <>(op.name \in {"begin_pass", "stop_persistence_task"}))

\* C29: save pass versus registry changes. A save_all_queues pass that get_queue
\* creating a queue, or remove_queue / cleanup_guild_data deleting one, interleave
\* with at its store writes still writes a snapshot for every guild that was
\* registered when the pass began and stays registered (the same queue) until the
\* pass ends, no store write having failed.
C29_SaveVersusRegistry ==
    [][\A t \in DOMAIN tasks :
        (/\ tasks[t].pc = "save"
         /\ t \in DOMAIN tasks' /\ tasks'[t].pc = "sleep"
         /\ tasks'[t].failed = {}) =>
            \A g \in Guilds :
                (tasks[t].began[g] # NoQueue /\ queues'[g] = tasks[t].began[g])
                    => g \in tasks'[t].written]_vars

\* C30: capacity after restore. The queue from_dict makes of a snapshot written by
\* to_dict, also of a queue constructed with a max_size of its own, holds no more
\* than its max_size pending entries and has the max_size of the queue saved.
C30_CapacityAfterRestore ==
    op.name = "round_trip" =>
        /\ Len(ret.queue) <= ret.max_size
        /\ ret.max_size = QueueOf(op.g).max_size

====
